---- MODULE Spec2Model ----
(***************************************************************************)
(* rust-md-to-pdf: an actix-web service with two routes.                   *)
(*   POST /convert  markdown -> HTML (comrak) -> PDF (wkhtmltopdf run as a *)
(*                  subprocess over two temporary files)                   *)
(*   GET  /health   probes `wkhtmltopdf --version`                         *)
(* The model covers main (startup check, bind), the worker threads of the  *)
(* HTTP server, the two handlers, html_to_pdf step by step, the scratch    *)
(* directory and the external tool as the environment.                     *)
(***************************************************************************)
EXTENDS Integers, Sequences, FiniteSets, TLC

\* ---------------------------------------------------------------- bounds
MaxReq == 2          \* requests that arrive in one run
NWorkers == 2        \* worker threads started by HttpServer::run

Reqs == 1..MaxReq
Workers == 1..NWorkers
Ids == Reqs          \* the values Uuid::new_v4 returns, one per call

\* ------------------------------------------------------- environment sets
\* how the executable `wkhtmltopdf` resolves on PATH at a given moment
ToolStates == {"present", "missing", "notexec"}
\* texts are sequences of Unicode code points
Hello == <<35, 32, 72, 101, 108, 108, 111>>             \* # Hello
BackslashText == <<92, 117, 100, 56, 48, 48>>           \* a backslash, then ud800
\* markdown texts a client may send
Markdowns == {Hello, BackslashText}
\* captured stderr bytes: ASCII 'E' and a byte never valid in UTF-8; U+00E9 in
\* two bytes; a three-byte sequence cut short, then 'E'
StderrTexts == {<<69, 255>>, <<195, 169>>, <<226, 130, 69>>}
ExitStatuses == {0, 1}
\* the captured stderr is read on a non-zero exit only (line 124)
StderrFor(status) == IF status = 0 THEN {<<>>} ELSE StderrTexts

\* JSON string tokens as sent: a sequence of units, each a character written
\* as itself, a two-character escape (c is the character after the backslash)
\* or a \uXXXX escape (c is the value of the four hex digits)
Lit(c) == [kind |-> "lit", c |-> c]
Esc(c) == [kind |-> "esc", c |-> c]
Hex(n) == [kind |-> "hex", c |-> n]
\* the token that writes every character of a text as itself
Plain(text) == [i \in 1..Len(text) |-> Lit(text[i])]
\* "\\ud800": an escaped backslash, then the characters ud800
EscapedBackslash == <<Esc(92)>> \o Plain(<<117, 100, 56, 48, 48>>)
\* "\ud800": one \u escape, a surrogate with no partner
LoneSurrogate == <<Hex(55296)>>

\* members of a JSON value: key is the member's name token (empty for a value
\* that is not a member of an object), type its JSON type, value its string
\* token (a string) or its text as sent (a number, true, false, null)
Member(key, type, value) == [key |-> key, type |-> type, value |-> value]
Field == <<109, 97, 114, 107, 100, 111, 119, 110>>      \* markdown
OtherKey == <<116, 101, 120, 116>>                      \* text

\* request bodies: form "invalid" is a body that is not JSON at all; form
\* "scalar" is a JSON string, number, boolean or null on its own; for an
\* "object", members is the sequence of its members in the order sent (a key,
\* and a whole member, may occur more than once); for an "array", the
\* sequence of its elements. Bodies lists the bodies a client may send.
Malformed == [form |-> "invalid", members |-> <<>>]
JsonScalar(type, value) == [form |-> "scalar", members |-> <<Member(<<>>, type, value)>>]
JsonBody(members) == [form |-> "object", members |-> members]
JsonArray(members) == [form |-> "array", members |-> members]
Bodies ==
    <<Malformed,
     JsonScalar("string", Plain(Hello)),
     JsonScalar("number", Plain(<<52, 50>>)),
     JsonScalar("null", Plain(<<110, 117, 108, 108>>)),
     JsonScalar("bool", Plain(<<116, 114, 117, 101>>)),
     JsonBody(<<Member(Plain(OtherKey), "string", Plain(Hello))>>),
     JsonBody(<<Member(Plain(Field), "number", Plain(<<49>>))>>),
     JsonBody(<<Member(Plain(Field), "string", LoneSurrogate)>>),
     JsonBody(<<Member(LoneSurrogate, "string", Plain(<<120>>)),
                Member(Plain(Field), "string", Plain(Hello))>>),
     JsonBody(<<Member(Plain(Field), "string", <<>>),
                Member(Plain(Field), "string", Plain(Hello))>>),
     JsonBody(<<Member(Plain(Field), "string", Plain(Hello)),
                Member(Plain(Field), "string", Plain(Hello))>>),
     JsonBody(<<Member(Plain(Field), "string", Plain(Hello))>>),
     JsonBody(<<Member(Plain(Field), "string", EscapedBackslash)>>),
     JsonArray(<<Member(<<>>, "string", Plain(Hello))>>),
     JsonArray(<<Member(<<>>, "string", Plain(Hello)),
                 Member(<<>>, "string", <<>>)>>)>>

\* ------------------------------------------------------------ pure parts
\* the character a two-character escape stands for, -1 if there is none
EscapeChar(c) ==
    CASE c = 34 -> 34 [] c = 92 -> 92 [] c = 47 -> 47 [] c = 98 -> 8
      [] c = 102 -> 12 [] c = 110 -> 10 [] c = 114 -> 13 [] c = 116 -> 9
      [] OTHER -> -1

\* serde_json reading a string token into a String, from unit i on, text
\* being what the units before i gave: escapes are replaced by their
\* characters, a \u surrogate pair by its code point; a control character
\* written as itself, an unknown escape and a surrogate without its partner
\* are errors
RECURSIVE UnescapeFrom(_, _, _)
UnescapeFrom(tok, i, text) ==
    IF i > Len(tok) THEN [ok |-> TRUE, text |-> text]
    ELSE LET u == tok[i]
             bad == [ok |-> FALSE, text |-> <<>>]
         IN CASE u.kind = "lit" ->
                   IF u.c < 32 THEN bad
                   ELSE UnescapeFrom(tok, i + 1, Append(text, u.c))
              [] u.kind = "esc" ->
                   IF EscapeChar(u.c) < 0 THEN bad
                   ELSE UnescapeFrom(tok, i + 1, Append(text, EscapeChar(u.c)))
              [] u.kind = "hex" ->
                   IF u.c \in 55296..56319
                   THEN IF /\ i < Len(tok)
                           /\ tok[i + 1].kind = "hex"
                           /\ tok[i + 1].c \in 56320..57343
                        THEN UnescapeFrom(tok, i + 2,
                                 Append(text, 65536 + (u.c - 55296) * 1024
                                                    + (tok[i + 1].c - 56320)))
                        ELSE bad
                   ELSE IF u.c \in 56320..57343 THEN bad
                   ELSE UnescapeFrom(tok, i + 1, Append(text, u.c))

Unescape(tok) == UnescapeFrom(tok, 1, <<>>)

\* serde_json skipping a string token: only its form is looked at
WellFormed(tok) ==
    \A i \in 1..Len(tok) :
        /\ tok[i].kind = "lit" => tok[i].c >= 32
        /\ tok[i].kind = "esc" => EscapeChar(tok[i].c) >= 0

\* the member's name reads as the field name `markdown`
IsMarkdown(f) == Unescape(f.key).ok /\ Unescape(f.key).text = Field

\* the members that deserialize into the field `markdown`, in order: those
\* named "markdown" in an object, the elements of an array
FieldMembers(b) ==
    IF b.form = "object" THEN SelectSeq(b.members, IsMarkdown)
    ELSE IF b.form = "array" THEN b.members
    ELSE <<>>

\* the member's value deserializes into a String
IntoString(f) == f.type = "string" /\ Unescape(f.value).ok

\* a member of an object that is not the field: its name must read as a
\* string, its value is skipped
Skipped(f) ==
    /\ Unescape(f.key).ok
    /\ f.type = "string" => WellFormed(f.value)

\* every member of an object is read or skipped without error
MembersRead(b) ==
    b.form = "object" =>
        \A i \in 1..Len(b.members) : IsMarkdown(b.members[i]) \/ Skipped(b.members[i])

\* faulty variant of Deserialize: a missing "markdown" defaults to the empty
\* string, as under #[serde(default)]
DeserializeDefaulting(b) ==
    LET fields == FieldMembers(b)
    IN IF b.form \in {"object", "array"} /\ fields = <<>> /\ MembersRead(b)
       THEN [ok |-> TRUE, markdown |-> <<>>]
       ELSE IF Len(fields) = 1 /\ IntoString(fields[1]) /\ MembersRead(b)
            THEN [ok |-> TRUE, markdown |-> Unescape(fields[1].value).text]
            ELSE [ok |-> FALSE, markdown |-> <<>>]

\* serde-derived Deserialize of MarkdownRequest { markdown: String }: a JSON
\* object with exactly one member "markdown", a string (other members are
\* skipped, a second "markdown" is a duplicate field whatever its value), or
\* a JSON array of exactly one string; no other JSON value is a struct
Deserialize(b) ==
    LET fields == FieldMembers(b)
    IN IF Len(fields) = 1 /\ IntoString(fields[1]) /\ MembersRead(b)
       THEN [ok |-> TRUE, markdown |-> Unescape(fields[1].value).text]
       ELSE [ok |-> FALSE, markdown |-> <<>>]

\* markdown_to_html_converter: comrak's output placed in the fixed template
markdown_to_html_converter(markdown) == <<"<!DOCTYPE html>", markdown, "</html>">>

\* what wkhtmltopdf writes for a source document
RenderedPdf(html) == <<"%PDF", html>>

\* String::from_utf8_lossy: valid UTF-8 sequences decode to their code
\* points; each maximal invalid sequence becomes one U+FFFD.
\* Utf8Width: the sequence length a lead byte announces (0: not a lead byte)
Utf8Width(b) ==
    IF b < 128 THEN 1
    ELSE IF b >= 194 /\ b <= 223 THEN 2
    ELSE IF b >= 224 /\ b <= 239 THEN 3
    ELSE IF b >= 240 /\ b <= 244 THEN 4
    ELSE 0

\* the range the second byte must lie in, by lead byte
Utf8SecondOk(lead, b) ==
    IF lead = 224 THEN b >= 160 /\ b <= 191
    ELSE IF lead = 237 THEN b >= 128 /\ b <= 159
    ELSE IF lead = 240 THEN b >= 144 /\ b <= 191
    ELSE IF lead = 244 THEN b >= 128 /\ b <= 143
    ELSE b >= 128 /\ b <= 191

Utf8Continuation(b) == b >= 128 /\ b <= 191

\* how many bytes at the head of `bytes` form a valid prefix of one sequence
Utf8ValidPrefix(bytes) ==
    LET w == Utf8Width(bytes[1])
        n == Len(bytes)
    IN IF w <= 1 THEN 1
       ELSE IF n < 2 \/ ~Utf8SecondOk(bytes[1], bytes[2]) THEN 1
       ELSE IF w = 2 THEN 2
       ELSE IF n < 3 \/ ~Utf8Continuation(bytes[3]) THEN 2
       ELSE IF w = 3 THEN 3
       ELSE IF n < 4 \/ ~Utf8Continuation(bytes[4]) THEN 3
       ELSE 4

Utf8CodePoint(bytes, w) ==
    IF w = 1 THEN bytes[1]
    ELSE IF w = 2 THEN (bytes[1] - 192) * 64 + (bytes[2] - 128)
    ELSE IF w = 3 THEN (bytes[1] - 224) * 4096 + (bytes[2] - 128) * 64 + (bytes[3] - 128)
    ELSE (bytes[1] - 240) * 262144 + (bytes[2] - 128) * 4096
           + (bytes[3] - 128) * 64 + (bytes[4] - 128)

RECURSIVE from_utf8_lossy(_)
from_utf8_lossy(bytes) ==
    IF bytes = <<>> THEN <<>>
    ELSE LET w == Utf8Width(bytes[1])
             k == Utf8ValidPrefix(bytes)
         IN <<IF w # 0 /\ k = w THEN Utf8CodePoint(bytes, w) ELSE 65533>>
              \o from_utf8_lossy(SubSeq(bytes, k + 1, Len(bytes)))

\* faulty variant of SpawnOk: the spawn error is not noticed
SpawnOkAlways(t) == TRUE

\* Command::output() is Err when the executable cannot be spawned
SpawnOk(t) == t = "present"

\* faulty variant of Success: the exit status is not looked at
SuccessAlways(status) == TRUE

\* output.status.success()
Success(status) == status = 0

\* paths in std::env::temp_dir(): <<uuid, extension>>
Absent == <<"ENOENT">>
\* what fs::write leaves when it fails after creating the file
EmptyFile == <<>>
FilePath(id, extension) == <<id, extension>>

\* faulty variant of with_extension: one fixed output name for every job
with_extension_fixed(path, extension) == <<0, extension>>

\* PathBuf::with_extension: same stem, other extension
with_extension(path, extension) == <<path[1], extension>>

Paths == (Ids \cup {0}) \X {"html", "pdf"}

\* anyhow results of html_to_pdf
NoResult == [ok |-> FALSE, bytes |-> <<>>, err |-> "", detail |-> <<>>]
OkResult(bytes) == [ok |-> TRUE, bytes |-> bytes, err |-> "", detail |-> <<>>]
ErrResult(msg, detail) == [ok |-> FALSE, bytes |-> <<>>, err |-> msg, detail |-> detail]

\* faulty variant of DiscardRemoval: a failed removal becomes the call's error,
\* as under `fs::remove_file(..)?`
PropagateRemoval(cur, rm) ==
    IF rm = "err" THEN ErrResult("Failed to remove temporary file", <<>>) ELSE cur

\* `let _ = fs::remove_file(..)`: the removal's result is dropped
DiscardRemoval(cur, rm) == cur

\* responses of POST /convert
NoResp == [status |-> 0, ctype |-> "", disp |-> "", body |-> <<>>]
OkResponse(pdf_bytes) ==
    [status |-> 200, ctype |-> "application/pdf",
     disp |-> "attachment; filename=\"document.pdf\"", body |-> pdf_bytes]

\* faulty variant of InternalServerError: the error text is sent as the body
LeakyErrorResponse(e) ==
    [status |-> 500, ctype |-> "text/plain", disp |-> "", body |-> <<e.err>> \o e.detail]

\* HttpResponse::InternalServerError().finish()
InternalServerError(e) == [status |-> 500, ctype |-> "", disp |-> "", body |-> <<>>]

\* the Json extractor's rejection of a body that does not deserialize. The
\* response is made by the HTTP layer, outside main.rs: App::new() (lines
\* 191-194) registers no JsonConfig and no error handler, so it is the
\* layer's own, taken from spec.md ("surfaced by the HTTP layer as a client
\* error") with the layer's default status, 400 Bad Request
BadRequest == [status |-> 400, ctype |-> "text/plain", disp |-> "", body |-> <<"Json deserialize error">>]

\* responses of GET /health
Version == "CARGO_PKG_VERSION"
NoHealth == [status |-> 0, json |-> [status |-> "", version |-> ""]]
HealthResponse(code, status) == [status |-> code, json |-> [status |-> status, version |-> Version]]

NoLog == [prefix |-> "", err |-> "", detail |-> <<>>]
NoProc == [state |-> "none", status |-> 0, stderr |-> <<>>]
NoRead == [res |-> "none", bytes |-> <<>>]

\* ----------------------------------------------------------------- state
VARIABLES
    mainPc,     \* main: "start", "checked", "listening", "exited"
    exitCode,   \* process exit code, -1 while running
    bound,      \* the listening socket is bound
    errStream,  \* lines main wrote to stderr
    startTool,  \* how the tool resolved when main probed it ("unprobed" before)
    fs,         \* the scratch directory: path -> content, Absent if no file
    pc,         \* per request: position of its handler
    kind,       \* per request: "none", "convert", "health"
    body,       \* per request: the body sent, by its position in Bodies
    worker,     \* per request: the worker thread holding its connection (0: none)
    job,        \* per request: the uuid drawn for its rendering job (0: none)
    wr,         \* per request: outcome of fs::write(&file_path, content)
    proc,       \* per request: its wkhtmltopdf subprocess (render or probe)
    rd,         \* per request: outcome of fs::read(&pdf_path)
    rmH,        \* per request: outcome of remove_file(html_path)
    rmP,        \* per request: outcome of remove_file(pdf_path)
    result,     \* per request: what html_to_pdf returned
    resp,       \* per request: the /convert response
    hresp,      \* per request: the /health response
    probed,     \* per request: how the tool resolved when /health probed it
    log         \* per request: the line the handler wrote with eprintln!

vars == <<mainPc, exitCode, bound, errStream, startTool, fs, pc, kind, body,
          worker, job, wr, proc, rd, rmH, rmP, result, resp, hresp, probed, log>>

mainVars == <<mainPc, exitCode, bound, errStream, startTool>>
jobVars == <<job, wr, proc, rd, rmH, rmP, result>>
reqVars == <<kind, body, worker>>
outVars == <<resp, hresp, probed, log>>

\* the body request r sent
Sent(r) == Bodies[body[r]]

html_path(r) == FilePath(job[r], "html")
pdf_path(r) == with_extension(html_path(r), "pdf")

\* a worker thread runs one handler at a time: the handlers never yield
\* (std::process::Command::output blocks the thread)
Running(r) == pc[r] \in {"handler", "spawn", "wait", "rmhtml", "rmpdf", "probe"}
Busy(w) == \E r \in Reqs : worker[r] = w /\ Running(r)

Init ==
    /\ mainPc = "start"
    /\ exitCode = -1
    /\ bound = FALSE
    /\ errStream = <<>>
    /\ startTool = "unprobed"
    /\ fs = [p \in Paths |-> Absent]
    /\ pc = [r \in Reqs |-> "idle"]
    /\ kind = [r \in Reqs |-> "none"]
    /\ body = [r \in Reqs |-> 1]
    /\ worker = [r \in Reqs |-> 0]
    /\ job = [r \in Reqs |-> 0]
    /\ wr = [r \in Reqs |-> "none"]
    /\ proc = [r \in Reqs |-> NoProc]
    /\ rd = [r \in Reqs |-> NoRead]
    /\ rmH = [r \in Reqs |-> "none"]
    /\ rmP = [r \in Reqs |-> "none"]
    /\ result = [r \in Reqs |-> NoResult]
    /\ resp = [r \in Reqs |-> NoResp]
    /\ hresp = [r \in Reqs |-> NoHealth]
    /\ probed = [r \in Reqs |-> "unprobed"]
    /\ log = [r \in Reqs |-> NoLog]

\* ------------------------------------------------------------------ main
\* main, lines 177-180: probe the tool, exit(1) if it cannot be run
StartupCheck ==
    /\ mainPc = "start"
    /\ \E tool \in ToolStates :
         /\ startTool' = tool
         /\ IF SpawnOk(tool)
            THEN /\ mainPc' = "checked"
                 /\ UNCHANGED <<exitCode, errStream>>
            ELSE /\ mainPc' = "exited"
                 /\ exitCode' = 1
                 /\ errStream' = Append(errStream,
                        "Error: wkhtmltopdf is not installed. Please install it first.")
    /\ UNCHANGED <<bound, fs, pc>>
    /\ UNCHANGED <<reqVars, jobVars, outVars>>

\* main, lines 187-198: bind 0.0.0.0:8080 and run; a bind error is returned
\* from main, which prints it ("Error: {:?}") and ends the process with exit
\* code 1
Bind ==
    /\ mainPc = "checked"
    /\ \E ok \in BOOLEAN :
         IF ok
         THEN /\ mainPc' = "listening"
              /\ bound' = TRUE
              /\ UNCHANGED <<exitCode, errStream>>
         ELSE /\ mainPc' = "exited"
              /\ exitCode' = 1
              /\ errStream' = Append(errStream, "Error: Os { .. }")
              /\ UNCHANGED bound
    /\ UNCHANGED <<startTool, fs, pc>>
    /\ UNCHANGED <<reqVars, jobVars, outVars>>

\* ------------------------------------------------------------ HTTP front
\* a client's connection is accepted and handed to a worker thread: one that
\* holds a connection already, or one that holds none (the threads are
\* alike, so of those that hold none the first stands for all)
Arrive(r) ==
    /\ mainPc = "listening"
    /\ pc[r] = "idle"
    /\ \A q \in Reqs : q < r => pc[q] # "idle"
    /\ \E w \in Workers :
         /\ \/ \E q \in Reqs : worker[q] = w
            \/ \A v \in Workers : v < w => \E q \in Reqs : worker[q] = v
         /\ worker' = [worker EXCEPT ![r] = w]
    /\ pc' = [pc EXCEPT ![r] = "queued"]
    /\ UNCHANGED <<mainVars, fs, kind, body>>
    /\ UNCHANGED <<jobVars, outVars>>

\* POST /convert, the web::Json<MarkdownRequest> extractor: the worker reads
\* the request; the handler is called only with a deserialized payload
Extract(r) ==
    /\ pc[r] = "queued"
    /\ ~Busy(worker[r])
    /\ \E i \in DOMAIN Bodies :
         /\ kind' = [kind EXCEPT ![r] = "convert"]
         /\ body' = [body EXCEPT ![r] = i]
         /\ IF Deserialize(Bodies[i]).ok
            THEN /\ pc' = [pc EXCEPT ![r] = "handler"]
                 /\ UNCHANGED <<resp, worker>>
            ELSE /\ pc' = [pc EXCEPT ![r] = "done"]
                 /\ resp' = [resp EXCEPT ![r] = BadRequest]
                 /\ worker' = [worker EXCEPT ![r] = 0]
    /\ UNCHANGED <<mainVars, fs, hresp, probed, log>>
    /\ UNCHANGED jobVars

\* faulty variant of HealthProbe: the startup check's outcome is reused
HealthProbeCached(t) == SpawnOk(startTool)

\* health_check, line 162: Command::new("wkhtmltopdf").arg("--version").output()
HealthProbe(t) == SpawnOk(t)

\* health_check, line 162: the worker enters the handler and starts the probe;
\* if it cannot be run, output() is Err at once and lines 167-170 answer 503
HealthCheck(r) ==
    /\ pc[r] = "queued"
    /\ ~Busy(worker[r])
    /\ kind' = [kind EXCEPT ![r] = "health"]
    /\ \E tool \in ToolStates :
         /\ probed' = [probed EXCEPT ![r] = tool]
         /\ IF HealthProbe(tool)
            THEN /\ proc' = [proc EXCEPT ![r].state = "running"]
                 /\ pc' = [pc EXCEPT ![r] = "probe"]
                 /\ UNCHANGED <<hresp, worker>>
            ELSE /\ hresp' = [hresp EXCEPT ![r] =
                        HealthResponse(503, "unhealthy - wkhtmltopdf not found")]
                 /\ pc' = [pc EXCEPT ![r] = "done"]
                 /\ worker' = [worker EXCEPT ![r] = 0]
                 /\ UNCHANGED proc
    /\ UNCHANGED <<mainVars, fs, resp, log, body>>
    /\ UNCHANGED <<job, wr, rd, rmH, rmP, result>>

\* health_check, lines 162-166: the probe subprocess exits, with whatever
\* status, and output() returns Ok(_); the exit status is not looked at
ProbeExit(r) ==
    /\ pc[r] = "probe"
    /\ proc[r].state = "running"
    /\ \E status \in ExitStatuses :
         proc' = [proc EXCEPT ![r] =
                    [state |-> "exited", status |-> status, stderr |-> <<>>]]
    /\ hresp' = [hresp EXCEPT ![r] = HealthResponse(200, "healthy")]
    /\ pc' = [pc EXCEPT ![r] = "done"]
    /\ worker' = [worker EXCEPT ![r] = 0]
    /\ UNCHANGED <<mainVars, fs, resp, probed, log>>
    /\ UNCHANGED <<kind, body, job, wr, rd, rmH, rmP, result>>

\* the probe subprocess never terminates
ProbeHang(r) ==
    /\ pc[r] = "probe"
    /\ proc[r].state = "running"
    /\ proc' = [proc EXCEPT ![r].state = "hung"]
    /\ UNCHANGED <<mainVars, fs, pc, job, wr, rd, rmH, rmP, result>>
    /\ UNCHANGED <<reqVars, outVars>>

\* ----------------------------------------------------------- html_to_pdf
\* convert_markdown_to_pdf line 141 and html_to_pdf lines 94-95:
\* create_temp_file(html, "html") under a new v4 uuid
\* Uuid::new_v4: 122 random bits, taken never to repeat a value drawn by
\* another call. The values are only ever compared for equality, so the value
\* a request's call draws is represented by the request's own index.
new_v4(r) == r

\* convert_markdown_to_pdf, lines 144-156: html_to_pdf returns `res` and the
\* handler matches on it, answering the request
Respond(r, res) ==
    /\ result' = [result EXCEPT ![r] = res]
    /\ IF res.ok
       THEN /\ resp' = [resp EXCEPT ![r] = OkResponse(res.bytes)]
            /\ UNCHANGED log
       ELSE /\ resp' = [resp EXCEPT ![r] = InternalServerError(res)]
            /\ log' = [log EXCEPT ![r] =
                         [prefix |-> "Error converting to PDF: ",
                          err |-> res.err, detail |-> res.detail]]
    /\ pc' = [pc EXCEPT ![r] = "done"]
    /\ worker' = [worker EXCEPT ![r] = 0]

\* create_temp_file, lines 83-88: the uuid is drawn, then fs::write creates
\* the file and writes the content; it can fail before the file exists or
\* after, leaving an empty file behind
CreateTempFile(r) ==
    /\ pc[r] = "handler"
    /\ job' = [job EXCEPT ![r] = new_v4(r)]
    /\ \E outcome \in {"ok", "nocreate", "nowrite"} :
         IF outcome = "ok"
         THEN /\ fs' = [fs EXCEPT ![FilePath(new_v4(r), "html")] =
                          markdown_to_html_converter(Deserialize(Sent(r)).markdown)]
              /\ wr' = [wr EXCEPT ![r] = "ok"]
              /\ pc' = [pc EXCEPT ![r] = "spawn"]
              /\ UNCHANGED <<result, resp, log, worker>>
         ELSE /\ fs' = IF outcome = "nowrite"
                       THEN [fs EXCEPT ![FilePath(new_v4(r), "html")] = EmptyFile]
                       ELSE fs
              /\ wr' = [wr EXCEPT ![r] = "err"]
              /\ Respond(r, ErrResult("Failed to create temporary HTML file", <<>>))
    /\ UNCHANGED <<mainVars, proc, rd, rmH, rmP>>
    /\ UNCHANGED <<kind, body, hresp, probed>>

\* lines 101-119: Command::new("wkhtmltopdf")....output() starts the subprocess
Spawn(r) ==
    /\ pc[r] = "spawn"
    /\ \E tool \in ToolStates :
         IF SpawnOk(tool)
         THEN /\ proc' = [proc EXCEPT ![r].state = "running"]
              /\ pc' = [pc EXCEPT ![r] = "wait"]
              /\ UNCHANGED <<result, resp, log, worker>>
         ELSE /\ Respond(r, ErrResult("Failed to execute wkhtmltopdf", <<>>))
              /\ UNCHANGED proc
    /\ UNCHANGED <<mainVars, fs, job, wr, rd, rmH, rmP>>
    /\ UNCHANGED <<kind, body, hresp, probed>>

\* the subprocess: reads the source, may write the destination, exits
SubprocExit(r) ==
    /\ pc[r] = "wait"
    /\ proc[r].state = "running"
    /\ \E status \in ExitStatuses, wrote \in BOOLEAN :
       \E text \in StderrFor(status) :
         /\ proc' = [proc EXCEPT ![r] =
                       [state |-> "exited", status |-> status, stderr |-> text]]
         /\ IF wrote
            THEN fs' = [fs EXCEPT ![pdf_path(r)] = RenderedPdf(fs[html_path(r)])]
            ELSE UNCHANGED fs
    /\ UNCHANGED <<mainVars, pc, job, wr, rd, rmH, rmP, result>>
    /\ UNCHANGED <<reqVars, outVars>>

\* the subprocess: never terminates
SubprocHang(r) ==
    /\ pc[r] = "wait"
    /\ proc[r].state = "running"
    /\ proc' = [proc EXCEPT ![r].state = "hung"]
    /\ UNCHANGED <<mainVars, fs, pc, job, wr, rd, rmH, rmP, result>>
    /\ UNCHANGED <<reqVars, outVars>>

\* lines 119-129: output() returns once the subprocess has exited; a non-zero
\* status is returned as an error, otherwise fs::read(&pdf_path).context(..)?
ReadPdf(r) ==
    /\ pc[r] = "wait"
    /\ proc[r].state = "exited"
    /\ IF ~Success(proc[r].status)
       THEN /\ Respond(r, ErrResult("wkhtmltopdf failed: ",
                                    from_utf8_lossy(proc[r].stderr)))
            /\ UNCHANGED rd
       ELSE \E ok \in BOOLEAN :
              IF ok /\ fs[pdf_path(r)] # Absent
              THEN /\ rd' = [rd EXCEPT ![r] = [res |-> "ok", bytes |-> fs[pdf_path(r)]]]
                   /\ pc' = [pc EXCEPT ![r] = "rmhtml"]
                   /\ UNCHANGED <<result, resp, log, worker>>
              ELSE /\ rd' = [rd EXCEPT ![r] = [res |-> "err", bytes |-> <<>>]]
                   /\ Respond(r, ErrResult("Failed to read generated PDF", <<>>))
    /\ UNCHANGED <<mainVars, fs, job, wr, proc, rmH, rmP>>
    /\ UNCHANGED <<kind, body, hresp, probed>>

\* fs::remove_file(path): "ok" with the file gone, or "err" with the scratch
\* directory unchanged
RemoveFile(path, ok) ==
    IF ok /\ fs[path] # Absent
    THEN [res |-> "ok", fs |-> [fs EXCEPT ![path] = Absent]]
    ELSE [res |-> "err", fs |-> fs]

\* line 132: let _ = fs::remove_file(html_path)
RemoveHtml(r) ==
    /\ pc[r] = "rmhtml"
    /\ \E ok \in BOOLEAN :
         LET rm == RemoveFile(html_path(r), ok)
             res == DiscardRemoval(NoResult, rm.res)
         IN /\ fs' = rm.fs
            /\ rmH' = [rmH EXCEPT ![r] = rm.res]
            /\ IF res = NoResult
               THEN /\ pc' = [pc EXCEPT ![r] = "rmpdf"]
                    /\ UNCHANGED <<result, resp, log, worker>>
               ELSE Respond(r, res)
    /\ UNCHANGED <<mainVars, job, wr, proc, rd, rmP>>
    /\ UNCHANGED <<kind, body, hresp, probed>>

\* lines 133-135: let _ = fs::remove_file(pdf_path); Ok(pdf_content)
RemovePdf(r) ==
    /\ pc[r] = "rmpdf"
    /\ \E ok \in BOOLEAN :
         LET rm == RemoveFile(pdf_path(r), ok)
         IN /\ fs' = rm.fs
            /\ rmP' = [rmP EXCEPT ![r] = rm.res]
            /\ Respond(r, DiscardRemoval(OkResult(rd[r].bytes), rm.res))
    /\ UNCHANGED <<mainVars, job, wr, proc, rd, rmH>>
    /\ UNCHANGED <<kind, body, hresp, probed>>

Next ==
    \/ StartupCheck
    \/ Bind
    \/ \E r \in Reqs : Arrive(r)
    \/ \E r \in Reqs : Extract(r)
    \/ \E r \in Reqs : HealthCheck(r)
    \/ \E r \in Reqs : ProbeExit(r)
    \/ \E r \in Reqs : ProbeHang(r)
    \/ \E r \in Reqs : CreateTempFile(r)
    \/ \E r \in Reqs : Spawn(r)
    \/ \E r \in Reqs : SubprocExit(r)
    \/ \E r \in Reqs : SubprocHang(r)
    \/ \E r \in Reqs : ReadPdf(r)
    \/ \E r \in Reqs : RemoveHtml(r)
    \/ \E r \in Reqs : RemovePdf(r)

Spec == Init /\ [][Next]_vars

\* A worker thread that can take a step takes it, and a subprocess that has
\* not hung exits: the scheduling under which responses are owed.
Fairness ==
    \A r \in Reqs :
        /\ WF_vars(Extract(r) \/ HealthCheck(r))
        /\ WF_vars(ProbeExit(r))
        /\ WF_vars(CreateTempFile(r))
        /\ WF_vars(Spawn(r))
        /\ WF_vars(SubprocExit(r))
        /\ WF_vars(ReadPdf(r))
        /\ WF_vars(RemoveHtml(r))
        /\ WF_vars(RemovePdf(r))

LiveSpec == Spec /\ Fairness

\* ================================================================ claims
\* html_to_pdf was entered for r and has returned
Returned(r) == kind[r] = "convert" /\ pc[r] = "done" /\ result[r] # NoResult

\* C1: after html_to_pdf has returned, on every exit path, neither the .html
\* nor the .pdf artifact of that call remains in the scratch directory,
\* unless its removal was attempted and failed.
C1_CleanupOnEveryExit ==
    \A r \in Reqs :
        (Returned(r) /\ job[r] # 0) =>
            /\ fs[html_path(r)] = Absent \/ rmH[r] = "err"
            /\ fs[pdf_path(r)] = Absent \/ rmP[r] = "err"

\* the text each captured stderr reads as: U+FFFD for what is not UTF-8
C2_DecodedText(bytes) ==
    CASE bytes = <<69, 255>> -> <<69, 65533>>
      [] bytes = <<195, 169>> -> <<233>>
      [] bytes = <<226, 130, 69>> -> <<65533, 69>>

\* C2: when the subprocess exits non-zero, html_to_pdf fails with a message
\* that embeds the captured stderr text (decoded as UTF-8, invalid sequences
\* replaced by U+FFFD), returns no bytes, and the destination artifact is
\* never read.
C2_NonZeroExitFails ==
    \A r \in Reqs :
        (kind[r] = "convert" /\ proc[r].state = "exited" /\ proc[r].status # 0) =>
            /\ rd[r].res = "none"
            /\ pc[r] \in {"wait", "done"}
            /\ pc[r] = "done" =>
                 /\ ~result[r].ok
                 /\ result[r].bytes = <<>>
                 /\ result[r].err = "wkhtmltopdf failed: "
                 /\ result[r].detail = C2_DecodedText(proc[r].stderr)

C2_Witness ==
    \E r \in Reqs :
        /\ pc[r] = "done"
        /\ proc[r].state = "exited" /\ proc[r].status = 1
        /\ proc[r].stderr = <<226, 130, 69>>
        /\ result[r].detail = <<65533, 69>>
        /\ fs[pdf_path(r)] # Absent

\* C3: a /convert request that reached the handler is answered either with
\* 200, the rendered bytes, application/pdf and the attachment disposition
\* (html_to_pdf succeeded) or with 500 and an empty body (it failed, for
\* whatever reason).
C3_TwoResponseShapes ==
    \A r \in Reqs :
        Returned(r) =>
            IF result[r].ok
            THEN resp[r] = [status |-> 200, ctype |-> "application/pdf",
                            disp |-> "attachment; filename=\"document.pdf\"",
                            body |-> result[r].bytes]
            ELSE /\ resp[r] = [status |-> 500, ctype |-> "", disp |-> "", body |-> <<>>]
                 /\ result[r].err \in {"Failed to create temporary HTML file",
                                       "Failed to execute wkhtmltopdf",
                                       "wkhtmltopdf failed: ",
                                       "Failed to read generated PDF"}

C3_Witness ==
    \E r1, r2 \in Reqs :
        /\ Returned(r1) /\ resp[r1].status = 200 /\ resp[r1].body # <<>>
        /\ Returned(r2) /\ resp[r2].status = 500
        /\ result[r2].err = "wkhtmltopdf failed: " /\ result[r2].detail # <<>>
        /\ log[r2].detail = result[r2].detail

\* the markdown document each body carries
C4_Document == [i \in DOMAIN Bodies |-> Deserialize(Bodies[i]).markdown]

\* C4: no two rendering jobs, running or finished, share a source or result
\* artifact path, and a 200 response carries exactly the rendering of the
\* request's own source document.
C4_NoCrossRequestCollision ==
    /\ \A r1, r2 \in Reqs :
         (r1 # r2 /\ job[r1] # 0 /\ job[r2] # 0) =>
             {html_path(r1), pdf_path(r1)} \cap {html_path(r2), pdf_path(r2)} = {}
    /\ \A r \in Reqs : job[r] # 0 => html_path(r) # pdf_path(r)
    /\ \A r \in Reqs :
         rd[r].res = "ok" =>
             rd[r].bytes = <<"%PDF", <<"<!DOCTYPE html>",
                                       C4_Document[body[r]], "</html>">>>>
    /\ \A r \in Reqs :
         resp[r].status = 200 => resp[r].body = rd[r].bytes

C4_Witness ==
    \E r1, r2 \in Reqs :
        /\ r1 # r2
        /\ worker[r1] # worker[r2]
        /\ pc[r1] = "rmhtml" /\ pc[r2] = "rmhtml"
        /\ rd[r1].bytes # rd[r2].bytes

\* C5: if the tool cannot be run when the process starts, the process writes
\* an error, exits with code 1 and never binds; the listener is bound, and
\* requests are accepted, only after the startup check has succeeded.
C5_StartupCheckBeforeBind ==
    /\ startTool \in {"missing", "notexec"} =>
         /\ mainPc = "exited"
         /\ exitCode = 1
         /\ errStream # <<>>
         /\ ~bound
    /\ bound => startTool = "present"
    /\ \A r \in Reqs : pc[r] # "idle" => bound

C5_Witness ==
    /\ startTool = "notexec"
    /\ mainPc = "exited"
    /\ exitCode = 1
    /\ Len(errStream) = 1

\* C6: a /health request is answered from the probe made during that
\* request: 200 "healthy" if the tool could be run then, 503 "unhealthy -
\* wkhtmltopdf not found" if not, the version in both.
C6_HealthFromFreshProbe ==
    \A r \in Reqs :
        (kind[r] = "health" /\ pc[r] = "done") =>
            /\ hresp[r].json.version = "CARGO_PKG_VERSION"
            /\ IF probed[r] = "present"
               THEN /\ hresp[r].status = 200
                    /\ hresp[r].json.status = "healthy"
               ELSE /\ probed[r] \in {"missing", "notexec"}
                    /\ hresp[r].status = 503
                    /\ hresp[r].json.status = "unhealthy - wkhtmltopdf not found"

C6_Witness ==
    \E r1, r2 \in Reqs :
        /\ startTool = "present"
        /\ r1 < r2
        /\ hresp[r1].status = 503 /\ probed[r1] = "notexec"
        /\ hresp[r2].status = 200 /\ proc[r2].status = 1

\* C7: for the same subprocess outcome and read-back result, html_to_pdf
\* returns the same value and the request the same response whether each
\* removal succeeded or failed; a failed removal is never an error.
C7_RemovalFailureSwallowed ==
    /\ \A r1, r2 \in Reqs :
         (/\ Returned(r1) /\ Returned(r2)
          /\ wr[r1] = wr[r2]
          /\ proc[r1] = proc[r2]
          /\ rd[r1] = rd[r2]) =>
             /\ result[r1] = result[r2]
             /\ resp[r1] = resp[r2]
             /\ log[r1] = log[r2]
    /\ \A r \in Reqs :
         (Returned(r) /\ (rmH[r] = "err" \/ rmP[r] = "err")) =>
             /\ result[r].ok
             /\ result[r].bytes = rd[r].bytes
             /\ resp[r].status = 200
             /\ log[r] = NoLog
             /\ rmH[r] # "none" /\ rmP[r] # "none"

C7_Witness ==
    \E r1, r2 \in Reqs :
        /\ Returned(r1) /\ Returned(r2)
        /\ rmH[r1] = "ok" /\ rmP[r1] = "ok"
        /\ rmH[r2] = "err" /\ rmP[r2] = "err"
        /\ rd[r1] = rd[r2]
        /\ resp[r1] = resp[r2] /\ resp[r1].status = 200
        /\ fs[html_path(r2)] # Absent /\ fs[pdf_path(r2)] # Absent

\* a body that fails deserialization: it is not JSON, is not an object or a
\* one-element array, has no "markdown", has one that is not a decodable
\* string, has it more than once, or has a member that cannot be read
BadBody(b) ==
    \/ b.form \in {"invalid", "scalar"}
    \/ /\ b.form = "object"
       /\ LET n == Len(b.members)
              name(i) == Unescape(b.members[i].key)
              named(i) == name(i).ok /\ name(i).text = <<109, 97, 114, 107, 100, 111, 119, 110>>
          IN \/ \A i \in 1..n : ~named(i)
             \/ \E i \in 1..n :
                  /\ named(i)
                  /\ \/ b.members[i].type # "string"
                     \/ ~Unescape(b.members[i].value).ok
             \/ \E i \in 1..n : ~name(i).ok
             \/ \E i \in 1..n :
                  /\ ~named(i)
                  /\ b.members[i].type = "string"
                  /\ ~WellFormed(b.members[i].value)
             \/ \E i, j \in 1..n : i # j /\ named(i) /\ named(j)
    \/ /\ b.form = "array"
       /\ \/ Len(b.members) # 1
          \/ \E i \in 1..Len(b.members) :
               \/ b.members[i].type # "string"
               \/ ~Unescape(b.members[i].value).ok

\* the positions in Bodies of the bodies that fail deserialization
C8_Failing == {i \in DOMAIN Bodies : BadBody(Bodies[i])}

\* C8: a /convert request whose body fails deserialization (it is not JSON,
\* is not an object or a one-element array, has no "markdown", has one that is
\* not a decodable string, or has it more than once) is answered 4xx and
\* never creates an artifact or starts a subprocess.
C8_BadBodyRejected ==
    \A r \in Reqs :
        (kind[r] = "convert" /\ body[r] \in C8_Failing) =>
            /\ pc[r] = "done"
            /\ resp[r].status \in 400..499
            /\ job[r] = 0
            /\ wr[r] = "none"
            /\ proc[r].state = "none"
            /\ result[r] = NoResult
            /\ log[r] = NoLog

C8_Witness ==
    \E r1, r2 \in Reqs :
        /\ kind[r1] = "convert" /\ Sent(r1).form = "invalid"
        /\ kind[r2] = "convert" /\ Sent(r2).form = "object"
        /\ Len(Sent(r2).members) = 2 /\ Sent(r2).members[1] = Sent(r2).members[2]
        /\ resp[r1].status = 400 /\ resp[r2].status = 400
        /\ \A p \in Paths : fs[p] = Absent

\* C9: when the subprocess exits with status zero, removal of both artifacts
\* is attempted before html_to_pdf returns, whether the read-back succeeded
\* or failed.
C9_RemovalAfterZeroExit ==
    \A r \in Reqs :
        (Returned(r) /\ proc[r].state = "exited" /\ proc[r].status = 0) =>
            rmH[r] # "none" /\ rmP[r] # "none"

\* C10: an accepted request is eventually answered unless its own subprocess
\* never terminates, in which case it is never answered; a request is not
\* kept from completing by another request's subprocess.
C10_ResponseLiveness ==
    \A r \in Reqs :
        /\ [](pc[r] # "idle" => <>(pc[r] = "done" \/ proc[r].state = "hung"))
        /\ [](proc[r].state = "hung" => [](pc[r] # "done"))
====
